---- MODULE Spec2Model ----
(***************************************************************************)
(* Quorum-based transaction authorization of coala-poc-para.               *)
(*                                                                         *)
(* The program is the PendingTransactions component (pending-transactions  *)
(* .tsx): loadPendingTransactions, handleSignTransaction and               *)
(* handleExecuteTransaction, run by several browser sessions against two   *)
(* collaborators, the transaction relay (Safe Transaction Service) and the *)
(* ledger (the Safe account reached through the Safe SDK).  Every await of *)
(* a handler is a point where other sessions and the collaborators act.    *)
(***************************************************************************)
EXTENDS Integers, Sequences, FiniteSets, TLC

\* ---------------------------------------------------------------- bounds
MaxChanges == 1      \* owner / threshold changes made on the ledger

\* ------------------------------------------------------------ universes
Sessions == {"s1"}            \* browser sessions showing the component
Slots == {1}                  \* handler invocations one session has in flight
OwnerIds == {1, 2, 3}         \* numeric value of the 20-byte addresses
Payloads == {"p1"}            \* (to, value, data) of a transaction
\* viemAccount.address of the sessions: an owner spelled in lower case, an
\* owner spelled checksummed, and no connected wallet.
Wallets == {[id |-> 2, sp |-> "lower"], [id |-> 3, sp |-> "check"], [id |-> 0, sp |-> "none"]}

\* ------------------------------------------------------------ addresses
\* An address string: the 20 bytes (id) and the letter case it is spelled in.
Checksummed(n) == [id |-> n, sp |-> "check"]
NoWallet == [id |-> 0, sp |-> "none"]

\* An address left in the spelling it was given in.
getAddress_AsSpelled(a) == a

\* viem getAddress: the EIP-55 checksummed spelling of the same 20 bytes.
getAddress(a) == [id |-> a.id, sp |-> "check"]

\* String.prototype.toLowerCase on an address string.
toLowerCase(a) == [id |-> a.id, sp |-> "lower"]

\* ------------------------------------------------- identity and signing
\* safeTxHash: digest over the immutable fields; injective in (payload, nonce),
\* the gas parameters and operation kind being the SDK defaults throughout.
TransactionHash(payload, nonce) == <<payload, nonce>>
NoHash == <<"none", 0>>
PayloadOf(h) == h[1]
NonceOf(h) == h[2]

\* A signature: who signed and the hash that was signed.  NoSig is absent
\* signature data (confirmation.signature null or empty).
Signature(signer, h) == [signer |-> signer, hash |-> h]
NoSig == [signer |-> 0, hash |-> NoHash]

\* Signer recovery: an owner id when the signature verifies against h, the
\* id 0 (no owner) otherwise.
Recover(sig, h) == IF sig # NoSig /\ sig.hash = h THEN sig.signer ELSE 0

VARIABLES
    ledgerOwners,     \* ledger: current owner ids of the account
    ledgerThreshold,  \* ledger: current threshold
    ledgerNonce,      \* ledger: nonce of the next transaction
    ledgerExecuted,   \* ledger: hashes of the executed transactions
    ledgerChanges,    \* ledger: owner / threshold changes made so far
    relayTxs,         \* relay: safeTxHash -> [confirmations, isExecuted]
    wallet,           \* session: viemAccount.address, NoWallet when not connected
    owners,           \* session: owners returned by useSafeProtocolKit
    threshold,        \* session: threshold returned by useSafeProtocolKit
    pendingTxs,       \* session: useState pendingTxs, safeTxHash -> relay entry
    isSigning,        \* session: useState isSigning (a safeTxHash or NoHash)
    error,            \* session: useState error
    ops,              \* session: the handler invocations in flight
    lastCall,         \* ledger boundary: the last executeTransaction call received
    delegatedAccesses, \* store.ts: Map id -> DelegatedAccess
    deliveries,       \* webhook receiver: the deliveries being handled
    privateKeyPem,    \* process environment: the RSA private key, PEM text
    webhookSecret,    \* process environment: whether a webhook secret is configured
    log,              \* console: the values written by console.error
    response,         \* delegated-access API: the last request and its response
    trigger,          \* dynamicLabsService: the triggerDelegation call in progress
    vaults,           \* store.ts: Map id -> Vault
    wallets,          \* store.ts: ids of the Wallet records
    requests          \* wallet and delegate routes: the requests being handled

vars == <<ledgerOwners, ledgerThreshold, ledgerNonce, ledgerExecuted,
          ledgerChanges, relayTxs, wallet, owners, threshold, pendingTxs, isSigning,
          error, ops, lastCall, delegatedAccesses, deliveries, privateKeyPem,
          webhookSecret, log, response, trigger, vaults, wallets, requests>>

quorumVars == <<ledgerOwners, ledgerThreshold, ledgerNonce, ledgerExecuted,
                ledgerChanges, relayTxs, wallet, owners, threshold, pendingTxs,
                isSigning, error, ops, lastCall>>
webhookVars == <<delegatedAccesses, deliveries, privateKeyPem, webhookSecret, log>>
routeVars == <<response, trigger, vaults, wallets, requests>>

ledgerVars == <<ledgerOwners, ledgerThreshold, ledgerNonce, ledgerExecuted, ledgerChanges>>
hookVars == <<wallet, owners, threshold>>

\* --------------------------------------------------------------- relay
\* The relay keeps, per safeTxHash, the confirmation list in arrival order.
NoEntry == [confirmations |-> <<>>, isExecuted |-> FALSE]
NoTxs == [h \in {} |-> NoEntry]

Confirmation(ownerId, sig) == [owner |-> Checksummed(ownerId), signature |-> sig]

HasConfirmation(confs, ownerId) ==
    \E i \in 1..Len(confs) : confs[i].owner.id = ownerId

\* Relay, Confirm: the answer to POST {identityHash, signature}.  The signer is
\* recovered from the signature; a duplicate of the same owner is rejected.
RelayConfirmResult(h, sig) ==
    LET signer == Recover(sig, h) IN
    IF h \notin DOMAIN relayTxs THEN "Relay:NotFound"
    ELSE IF relayTxs[h].isExecuted THEN "Relay:AlreadyExecuted"
    ELSE IF signer = 0 THEN "Relay:HashMismatch"
    ELSE IF HasConfirmation(relayTxs[h].confirmations, signer) THEN "Relay:AlreadySigned"
    ELSE IF signer \notin ledgerOwners THEN "Relay:NotOwner"
    ELSE "ok"

\* Relay, Confirm accepted: the confirmation is appended to the list.
RelayWithConfirmation(h, sig) ==
    [relayTxs EXCEPT ![h].confirmations = Append(@, Confirmation(Recover(sig, h), sig))]

\* Relay, List pending: GET ...?executed=false.
getPendingTransactions ==
    [h \in {k \in DOMAIN relayTxs : ~relayTxs[k].isExecuted} |-> relayTxs[h]]

\* Relay, Fetch: GET /multisig-transactions/{hash}/.
getTx(h) == relayTxs[h]

\* ------------------------------------------------------------- bundler
NoSignatures == [a \in {} |-> [signer |-> NoWallet, data |-> NoSig]]

\* The loop of handleExecuteTransaction over the confirmations: addSignature
\* for every confirmation that carries signature data, the signer spelled by
\* getAddress.  The SDK keys its signature map by the lower-cased signer, so a
\* later signature of the same owner replaces the earlier one.
RECURSIVE AddSignatures(_, _)
AddSignatures(confirmations, signatures) ==
    IF confirmations = <<>> THEN signatures
    ELSE LET confirmation == Head(confirmations)
             ownerAddress == getAddress(confirmation.owner)
             signatureData == confirmation.signature
             key == toLowerCase(ownerAddress)
             added == [a \in DOMAIN signatures \cup {key} |->
                          IF a = key THEN [signer |-> ownerAddress, data |-> signatureData]
                          ELSE signatures[a]]
         IN AddSignatures(Tail(confirmations),
                          IF signatureData # NoSig THEN added ELSE signatures)

\* SignatureBundler: the signatures sorted ascending by the numeric value of
\* the normalized owner address, as the ledger receives them.
RECURSIVE SortedBySigner(_)
SortedBySigner(entries) ==
    IF entries = {} THEN <<>>
    ELSE LET first == CHOOSE x \in entries : \A y \in entries : x.signer.id <= y.signer.id
         IN <<first>> \o SortedBySigner(entries \ {first})

EncodedSignatures(signatures) ==
    SortedBySigner({signatures[a] : a \in DOMAIN signatures})

\* -------------------------------------------------------------- ledger
\* The verifier makes one forward pass over the bundle: every signature must
\* recover, against the hash of the submitted transaction, to a current owner
\* with an address above the previous one, and there must be at least
\* threshold of them.
LedgerAccepts(h, bundle) ==
    /\ NonceOf(h) = ledgerNonce
    /\ Len(bundle) >= ledgerThreshold
    /\ \A i \in 1..Len(bundle) : Recover(bundle[i].data, h) \in ledgerOwners
    /\ \A i \in 1..Len(bundle) - 1 :
           Recover(bundle[i].data, h) < Recover(bundle[i + 1].data, h)

\* Relay indexing of an executed transaction.
RelayWithExecuted(h) ==
    [k \in DOMAIN relayTxs |->
        IF k = h THEN [relayTxs[k] EXCEPT !.isExecuted = TRUE] ELSE relayTxs[k]]

\* ----------------------------------------------------------- component
IdleOp == [pc |-> "idle", hash |-> NoHash, confs |-> <<>>, thr |-> 0, sig |-> NoSig]
NoCall == [by |-> "none", tx |-> NoHash, recreated |-> NoHash, bundle |-> <<>>,
           confs |-> <<>>, fetched |-> <<>>, thr |-> 0, wasExecuted |-> FALSE,
           accepted |-> FALSE]

\* A handler invocation takes the lowest free slot of its session.
FreeSlot(s, k) ==
    /\ ops[s][k].pc = "idle"
    /\ \A j \in Slots : j < k => ops[s][j].pc # "idle"

\* Mutant: only the first confirmation is compared.
HasAlreadySigned_FirstOnly(confirmations, currentAddress) ==
    /\ Len(confirmations) > 0
    /\ toLowerCase(getAddress(confirmations[1].owner)) = toLowerCase(currentAddress)

\* hasAlreadySigned / hasSigned: some confirmation's owner equals the current
\* address, both compared as getAddress(..).toLowerCase().
HasAlreadySigned(confirmations, currentAddress) ==
    \E i \in 1..Len(confirmations) :
        toLowerCase(getAddress(confirmations[i].owner)) = toLowerCase(currentAddress)

\* isOwner: owners.includes(currentAddress).
IsOwner(s) == wallet[s] # NoWallet /\ getAddress(wallet[s]) \in owners[s]

\* canSign and canExecute of the rendered list entry.
CanSign(s, h) ==
    IsOwner(s) /\ ~HasAlreadySigned(pendingTxs[s][h].confirmations, getAddress(wallet[s]))
CanExecute(s, h) == Len(pendingTxs[s][h].confirmations) >= threshold[s]

\* A button of entry h is disabled while isSigning === tx.safeTxHash.
ButtonEnabled(s, h) == h \in DOMAIN pendingTxs[s] /\ isSigning[s] # h

\* loadPendingTransactions: the list the relay answers, filtered to the
\* entries not executed; an error of the relay empties the list.
LoadedTxs(ok) ==
    IF ok
    THEN LET results == getPendingTransactions
         IN [h \in {k \in DOMAIN results : ~results[k].isExecuted} |-> results[h]]
    ELSE NoTxs
LoadedError(ok) == IF ok THEN "" ELSE "Relay:Unavailable"

\* ------------------------------------------------------ delegation webhook
Deliveries == {1, 2}          \* webhook requests the receiver handles at a time
EventIds == {"e1", "e2"}      \* webhook.eventId
RecordIds == {"r1", "r2"}     \* DelegatedAccess.id the receiver gives a record
KeyLogLength == 30            \* substring(0, 30) / substring(length - 30)

\* The PEM text of the private key, one element per character: armor line,
\* newline, base64 body ("k", the secret), newline, armor line.  PemEscaped is
\* the spelling of a .env file, every newline written as backslash and n.
PemText ==
    [i \in 1..27 |-> "-"] \o <<"\n">> \o [i \in 1..8 |-> "k"] \o <<"\n">> \o [i \in 1..25 |-> "-"]
PemEscaped ==
    [i \in 1..27 |-> "-"] \o <<"\\", "n">> \o [i \in 1..8 |-> "k"] \o <<"\\", "n">>
        \o [i \in 1..25 |-> "-"]

\* privateKeyPem.replace(/\\n/g, '\n')
RECURSIVE NormalizedKey(_)
NormalizedKey(pem) ==
    IF Len(pem) < 2 THEN pem
    ELSE IF pem[1] = "\\" /\ pem[2] = "n"
         THEN <<"\n">> \o NormalizedKey(SubSeq(pem, 3, Len(pem)))
         ELSE <<pem[1]>> \o NormalizedKey(Tail(pem))

\* String.prototype.substring(from, to), 0-based and end-exclusive.
Substring(str, from, to) == SubSeq(str, from + 1, to)

\* An EncryptedPayload: the content-encryption key cek wrapped under the
\* public key with some padding (ek), and the ciphertext of plain under cek
\* with its GCM tag (iv, ct, tag); tagOk is FALSE for a tampered ct or tag.
Envelope(cek, padding, tagOk, plain) ==
    [cek |-> cek, padding |-> padding, tagOk |-> tagOk, plain |-> plain]
Failure == "failure"
NotJsonText == "not-json"

\* The envelopes that arrive: well formed, wrapped with another padding,
\* tampered, and (for the share) well formed around text that is not JSON.
ShareEnvelopes ==
    {Envelope("cek-share", "oaep-sha256", TRUE, "share"),
     Envelope("cek-share", "pkcs1-v1_5", TRUE, "share"),
     Envelope("cek-share", "oaep-sha256", FALSE, "share"),
     Envelope("cek-share", "oaep-sha256", TRUE, NotJsonText)}
ApiKeyEnvelopes ==
    {Envelope("cek-apikey", "oaep-sha256", TRUE, "apikey"),
     Envelope("cek-apikey", "pkcs1-v1_5", TRUE, "apikey"),
     Envelope("cek-apikey", "oaep-sha256", FALSE, "apikey")}

\* A DelegationWebhook as it arrives: signatureValid says whether the signature
\* sent with it is the sender's signature of the raw payload.
Webhooks ==
    [eventId : EventIds, signatureValid : BOOLEAN,
     encryptedDelegatedShare : ShareEnvelopes, encryptedWalletApiKey : ApiKeyEnvelopes]

\* verifyWebhookSignature: prints a warning and returns true.
verifyWebhookSignature(payload, signature, secret) == TRUE

\* An unwrap that retries with PKCS#1 v1.5 padding when OAEP fails.
rsaOaepDecryptEk_Pkcs1Fallback(pem, envelope) ==
    IF NormalizedKey(pem) = PemText THEN envelope.cek ELSE Failure

\* rsaOaepDecryptEk: crypto.privateDecrypt with RSA_PKCS1_OAEP_PADDING and
\* oaepHash sha256; the content-encryption key, or Failure when it throws.
rsaOaepDecryptEk(pem, envelope) ==
    IF NormalizedKey(pem) = PemText /\ envelope.padding = "oaep-sha256"
    THEN envelope.cek
    ELSE Failure

\* What the catch of rsaOaepDecryptEk writes with console.error.
UnwrapErrorLog(pem) ==
    LET normalizedKey == NormalizedKey(pem) IN
    [keyLength |-> Len(normalizedKey),
     keyStartsWith |-> Substring(normalizedKey, 0, KeyLogLength),
     keyEndsWith |-> Substring(normalizedKey, Len(normalizedKey) - KeyLogLength,
                               Len(normalizedKey))]

\* decryptAesGcm: createDecipheriv, setAuthTag, update, final; final throws
\* when the tag does not verify, and nothing is returned then.
decryptAesGcm(key, envelope) ==
    IF key = envelope.cek /\ envelope.tagOk THEN envelope.plain ELSE Failure

NoMaterials == [ok |-> FALSE, delegatedShare |-> "none", walletApiKey |-> "none"]

\* A decryptMaterials that returns what it has decrypted so far when the
\* second envelope fails.
decryptMaterials_Partial(pem, share, apiKeyEnc) ==
    LET shareKey == rsaOaepDecryptEk(NormalizedKey(pem), share)
        delegatedShareBuffer == decryptAesGcm(shareKey, share)
    IN IF shareKey = Failure \/ delegatedShareBuffer \in {Failure, NotJsonText}
       THEN NoMaterials
       ELSE [ok |-> TRUE, delegatedShare |-> delegatedShareBuffer,
             walletApiKey |-> decryptAesGcm(rsaOaepDecryptEk(NormalizedKey(pem), apiKeyEnc),
                                            apiKeyEnc)]

\* decryptMaterials: both keys are unwrapped, then both payloads decrypted,
\* the share parsed as JSON; any throw ends in the catch, which throws.
decryptMaterials(pem, share, apiKeyEnc) ==
    LET normalizedPrivateKey == NormalizedKey(pem)
        shareKey == rsaOaepDecryptEk(normalizedPrivateKey, share)
        walletApiKeyKey == rsaOaepDecryptEk(normalizedPrivateKey, apiKeyEnc)
        delegatedShareBuffer == decryptAesGcm(shareKey, share)
        walletApiKeyBuffer == decryptAesGcm(walletApiKeyKey, apiKeyEnc)
    IN IF shareKey = Failure \/ walletApiKeyKey = Failure THEN NoMaterials
       ELSE IF delegatedShareBuffer = Failure \/ walletApiKeyBuffer = Failure THEN NoMaterials
       ELSE IF delegatedShareBuffer = NotJsonText THEN NoMaterials
       ELSE [ok |-> TRUE, delegatedShare |-> delegatedShareBuffer,
             walletApiKey |-> walletApiKeyBuffer]

\* The console.error output of one decryptMaterials call: the catch of
\* rsaOaepDecryptEk runs for the first key that fails to unwrap.
DecryptLog(pem, share, apiKeyEnc) ==
    IF \/ rsaOaepDecryptEk(NormalizedKey(pem), share) = Failure
       \/ rsaOaepDecryptEk(NormalizedKey(pem), apiKeyEnc) = Failure
    THEN {UnwrapErrorLog(NormalizedKey(pem))}
    ELSE {}

\* processDelegationWebhook: the signature is verified when a webhookSecret
\* is given, then the materials are decrypted.
SignatureAccepted(webhook) ==
    webhookSecret => verifyWebhookSignature(webhook, "", webhookSecret)

processDelegationWebhook(webhook, pem) ==
    IF ~SignatureAccepted(webhook) THEN NoMaterials
    ELSE decryptMaterials(pem, webhook.encryptedDelegatedShare, webhook.encryptedWalletApiKey)

\* store.ts
NoRecord == [walletId |-> "none", eventId |-> "none", delegatedShare |-> "none",
             walletApiKey |-> "none", status |-> "none"]
NoRecords == [id \in {} |-> NoRecord]

\* Store.createDelegatedAccess: this.delegatedAccesses.set(id, delegatedAccess).
createDelegatedAccess(id, delegatedAccess) ==
    [k \in DOMAIN delegatedAccesses \cup {id} |->
        IF k = id THEN delegatedAccess ELSE delegatedAccesses[k]]

\* A lookup that compares the record id with the eventId.
getDelegatedAccessByEventId_ById(eventId) ==
    {id \in DOMAIN delegatedAccesses : id = eventId}

\* A lookup that finds nothing.
getDelegatedAccessByEventId_NotFound(eventId) == {}

\* Store.getDelegatedAccessByEventId: the ids of the records found.
getDelegatedAccessByEventId(eventId) ==
    {id \in DOMAIN delegatedAccesses : delegatedAccesses[id].eventId = eventId}

NoWebhook == [eventId |-> "none", signatureValid |-> FALSE,
              encryptedDelegatedShare |-> Envelope("none", "none", FALSE, "none"),
              encryptedWalletApiKey |-> Envelope("none", "none", FALSE, "none")]
IdleDelivery == [pc |-> "idle", webhook |-> NoWebhook, materials |-> NoMaterials,
                 result |-> "none"]

\* The webhook receiver (POST /api/webhooks/delegation) takes a delivery: the
\* eventId is looked up; a record found ends the delivery as a duplicate.
Receive(d, webhook) ==
    /\ deliveries[d].pc = "idle"
    /\ IF getDelegatedAccessByEventId(webhook.eventId) # {}
       THEN deliveries' = [deliveries EXCEPT ![d] =
                              [IdleDelivery EXCEPT !.webhook.eventId = webhook.eventId,
                                                   !.result = "duplicate"]]
       ELSE deliveries' = [deliveries EXCEPT ![d] =
                              [IdleDelivery EXCEPT !.pc = "process", !.webhook = webhook]]
    /\ UNCHANGED <<delegatedAccesses, privateKeyPem, webhookSecret, log>>

\* The receiver calls processDelegationWebhook; a throw ends the delivery.
Process(d) ==
    /\ deliveries[d].pc = "process"
    /\ LET webhook == deliveries[d].webhook
           materials == processDelegationWebhook(webhook, privateKeyPem)
       IN /\ IF SignatureAccepted(webhook)
             THEN log' = log \cup DecryptLog(privateKeyPem, webhook.encryptedDelegatedShare,
                                             webhook.encryptedWalletApiKey)
             ELSE UNCHANGED log
          /\ IF materials.ok
             THEN deliveries' = [deliveries EXCEPT ![d].pc = "store",
                                                   ![d].materials = materials]
             ELSE deliveries' = [deliveries EXCEPT ![d] =
                                    [IdleDelivery EXCEPT !.webhook.eventId = webhook.eventId,
                                                         !.materials = materials,
                                                         !.result = "failed"]]
    /\ UNCHANGED <<delegatedAccesses, privateKeyPem, webhookSecret>>

\* The receiver stores the record of the delivery under a fresh id.
Materialize(d, id) ==
    /\ deliveries[d].pc = "store"
    /\ id \notin DOMAIN delegatedAccesses
    /\ delegatedAccesses' =
          createDelegatedAccess(id, [walletId |-> "w1",
                                     eventId |-> deliveries[d].webhook.eventId,
                                     delegatedShare |-> deliveries[d].materials.delegatedShare,
                                     walletApiKey |-> deliveries[d].materials.walletApiKey,
                                     status |-> "active"])
    /\ deliveries' = [deliveries EXCEPT ![d] =
                          [IdleDelivery EXCEPT !.webhook.eventId = deliveries[d].webhook.eventId,
                                               !.result = "stored"]]
    /\ UNCHANGED <<privateKeyPem, webhookSecret, log>>

\* ------------------------------------------------------------- routes
\* ---- delegated-access API (delegated-accesses/route.ts, [id]/route.ts)
Absent == "absent"            \* undefined: a field or parameter not given
TempIds == {"temp-1"}         \* `temp-${Date.now()}`
WalletIds == {"w1", "w2"}     \* Dynamic Labs wallet ids
Shares == {"share", "share-b"}        \* decrypted delegated shares
ApiKeys == {"apikey", "apikey-b"}     \* decrypted wallet API keys

\* A response that also carries the wallet API key.
sanitized_WithApiKey(id, da) ==
    [id |-> id, walletId |-> da.walletId, status |-> da.status, eventId |-> da.eventId,
     walletApiKey |-> da.walletApiKey]

\* The sanitized object of the three handlers: the fields copied from the
\* record (of the copied fields the model keeps id, walletId, status, eventId).
sanitized(id, da) ==
    [id |-> id, walletId |-> da.walletId, status |-> da.status, eventId |-> da.eventId]

NoRequest == [kind |-> "none", id |-> Absent, walletId |-> Absent, status |-> Absent]
NoResponse == [request |-> NoRequest, status |-> 0, body |-> {}]

\* GET /api/delegated-accesses?walletId=..: the records, filtered, sanitized.
ListResponse(store, walletId) ==
    [request |-> [NoRequest EXCEPT !.kind = "list", !.walletId = walletId],
     status |-> 200,
     body |-> {sanitized(id, store[id]) :
                  id \in {k \in DOMAIN store :
                             walletId = Absent \/ store[k].walletId = walletId}}]

\* GET /api/delegated-accesses/[id].
GetResponse(store, id) ==
    [request |-> [NoRequest EXCEPT !.kind = "get", !.id = id],
     status |-> IF id \in DOMAIN store THEN 200 ELSE 404,
     body |-> IF id \in DOMAIN store THEN {sanitized(id, store[id])} ELSE {}]

\* JavaScript truthiness of a body field: undefined and '' are falsy.
Truthy(v) == v \notin {Absent, ""}

\* The bodies a PATCH request may carry: any status or none, alone or with
\* other fields of a record.
PatchBodies ==
    {[status |-> status, delegatedShare |-> extra[1], eventId |-> extra[2]] :
        status \in {Absent, "", "pending", "revoked", "deleted"},
        extra \in {<<Absent, Absent>>, <<"forged", "e2">>}}

\* Updates made of every field the body carries.
PatchUpdates_WholeBody(body, delegatedAccess) ==
    [f \in {g \in DOMAIN body : body[g] # Absent} |-> body[f]]

\* PATCH: { status: status || delegatedAccess.status }.
PatchUpdates(body, delegatedAccess) ==
    [status |-> IF Truthy(body.status) THEN body.status ELSE delegatedAccess.status]

\* Store.updateDelegatedAccess: { ...delegatedAccess, ...updates } set under id.
updateDelegatedAccess(id, updates) ==
    IF id \notin DOMAIN delegatedAccesses THEN delegatedAccesses
    ELSE [delegatedAccesses EXCEPT ![id] =
             [f \in DOMAIN delegatedAccesses[id] \cup DOMAIN updates |->
                 IF f \in DOMAIN updates THEN updates[f] ELSE delegatedAccesses[id][f]]]

\* PATCH /api/delegated-accesses/[id].
PatchResponse(store, id, body) ==
    [request |-> [NoRequest EXCEPT !.kind = "patch", !.id = id, !.status = body.status],
     status |-> IF id \in DOMAIN store THEN 200 ELSE 404,
     body |-> IF id \in DOMAIN store THEN {sanitized(id, store[id])} ELSE {}]

accessFrame == <<quorumVars, deliveries, privateKeyPem, webhookSecret, log, trigger, vaults,
                 wallets, requests>>

GetList(walletId) ==
    /\ response' = ListResponse(delegatedAccesses, walletId)
    /\ UNCHANGED <<delegatedAccesses, accessFrame>>

GetOne(id) ==
    /\ response' = GetResponse(delegatedAccesses, id)
    /\ UNCHANGED <<delegatedAccesses, accessFrame>>

Patch(id, body) ==
    /\ IF id \notin DOMAIN delegatedAccesses
       THEN UNCHANGED delegatedAccesses
       ELSE delegatedAccesses' =
               updateDelegatedAccess(id, PatchUpdates(body, delegatedAccesses[id]))
    /\ response' = PatchResponse(delegatedAccesses', id, body)
    /\ UNCHANGED accessFrame

\* The temporary record the delegate route stores for a request with a walletId.
TemporaryDelegation(walletId) ==
    [walletId |-> walletId, eventId |-> Absent, delegatedShare |-> "null",
     walletApiKey |-> "", status |-> "pending"]

StoreTemporary(id, walletId) ==
    /\ delegatedAccesses' = createDelegatedAccess(id, TemporaryDelegation(walletId))
    /\ response' = NoResponse
    /\ UNCHANGED accessFrame

\* The record of a delivered webhook, stored by the receiver under a fresh id
\* when the eventId has no record.
StoreDelegation(id, eventId, delegatedShare, walletApiKey) ==
    /\ id \notin DOMAIN delegatedAccesses
    /\ getDelegatedAccessByEventId(eventId) = {}
    /\ delegatedAccesses' =
          createDelegatedAccess(id, [walletId |-> "w1", eventId |-> eventId,
                                     delegatedShare |-> delegatedShare,
                                     walletApiKey |-> walletApiKey, status |-> "active"])
    /\ response' = NoResponse
    /\ UNCHANGED accessFrame

\* ---- triggerDelegation (dynamicLabsService.ts)
EndpointCount == 4            \* the endpoints array
\* What an endpoint may answer: OK with a JSON body, OK with a body that is
\* not JSON, a status that is not OK, or no answer (fetch rejects).
Answers == {"ok-json", "ok-empty", "404", "401", "403", "500", "network-error"}

IdleTrigger == [pc |-> "idle", next |-> 0, requests |-> <<>>, answers |-> <<>>,
                result |-> "none"]

\* ---- wallet and delegate routes (wallets/route.ts, vaults/[id]/delegate)
RequestSlots == {1, 2}        \* requests the server handles at a time
VaultIds == {"v1"}            \* the local vault the requests resolve to
WalletRecordIds == {"k1", "k2"}   \* generateId() of the wallet records
Emails == {"a@x", "b@x"}      \* delegateEmail of the requests

NoVault == [id |-> "none", walletIds |-> <<>>, delegateEmails |-> <<>>]
IdleRequest == [pc |-> "idle", kind |-> "none", vault |-> NoVault, email |-> Absent,
                walletId |-> Absent, created |-> Absent, result |-> "none"]

RoutesAtRest ==
    /\ response = NoResponse
    /\ trigger = IdleTrigger
    /\ vaults = [v \in VaultIds |-> [id |-> v, walletIds |-> <<>>, delegateEmails |-> <<>>]]
    /\ wallets = {}
    /\ requests = [r \in RequestSlots |-> IdleRequest]

\* The quorum flow and the webhook receiver with nothing in progress.
QuorumAtRest ==
    /\ ledgerOwners = OwnerIds
    /\ ledgerThreshold = 2
    /\ ledgerNonce = 0
    /\ ledgerExecuted = {}
    /\ ledgerChanges = 0
    /\ relayTxs = NoTxs
    /\ wallet = [s \in Sessions |-> NoWallet]
    /\ owners = [s \in Sessions |-> {Checksummed(o) : o \in OwnerIds}]
    /\ threshold = [s \in Sessions |-> 2]
    /\ pendingTxs = [s \in Sessions |-> NoTxs]
    /\ isSigning = [s \in Sessions |-> NoHash]
    /\ error = [s \in Sessions |-> ""]
    /\ ops = [s \in Sessions |-> [k \in Slots |-> IdleOp]]
    /\ lastCall = NoCall

WebhookAtRest ==
    /\ delegatedAccesses = NoRecords
    /\ deliveries = [d \in Deliveries |-> IdleDelivery]
    /\ privateKeyPem = PemEscaped
    /\ webhookSecret = FALSE
    /\ log = {}

\* ---- specification of the delegated-access API
AccessInit == QuorumAtRest /\ WebhookAtRest /\ RoutesAtRest

AccessNext ==
    \/ \E id \in TempIds, walletId \in WalletIds : StoreTemporary(id, walletId)
    \/ \E id \in RecordIds, eventId \in EventIds, delegatedShare \in Shares,
          walletApiKey \in ApiKeys : StoreDelegation(id, eventId, delegatedShare, walletApiKey)
    \/ \E walletId \in WalletIds \cup {Absent} : GetList(walletId)
    \/ \E id \in RecordIds \cup TempIds : GetOne(id)
    \/ \E id \in RecordIds \cup TempIds, body \in PatchBodies : Patch(id, body)

AccessSpec == AccessInit /\ [][AccessNext]_vars

\* ---- specification of triggerDelegation
\* response.ok of an answer.
ResponseOk(answer) == answer \in {"ok-json", "ok-empty"}

\* What raises inside the try of one loop iteration: fetch rejecting, the
\* response.json() of an OK answer whose body is not JSON, and the throw for
\* a 401 or 403 answer.
ThrowsInTry(answer) ==
    \/ answer = "network-error"
    \/ answer = "ok-empty"
    \/ answer \in {"401", "403"}

\* The iteration returns from the function; otherwise it ends in continue,
\* directly or through the catch.
Returns(answer) == ResponseOk(answer) /\ ~ThrowsInTry(answer)

triggerFrame == <<quorumVars, webhookVars, response, vaults, wallets, requests>>

\* triggerDelegation up to the loop: throws without credentials.
TriggerStart(credentials) ==
    /\ trigger.pc = "idle"
    /\ trigger' = IF credentials
                  THEN [IdleTrigger EXCEPT !.pc = "loop", !.next = 1]
                  ELSE [IdleTrigger EXCEPT !.pc = "done", !.result = "throw"]
    /\ UNCHANGED triggerFrame

\* One iteration of the loop: the request to endpoints[next] and what follows
\* its answer; after the last endpoint the function returns
\* requiresClientSide.
TriggerFetch(answer) ==
    /\ trigger.pc = "loop"
    /\ LET sent == [trigger EXCEPT !.requests = Append(@, trigger.next),
                                   !.answers = Append(@, answer)]
       IN trigger' =
             IF Returns(answer)
             THEN [sent EXCEPT !.pc = "done", !.result = "success"]
             ELSE IF trigger.next = EndpointCount
             THEN [sent EXCEPT !.pc = "done", !.result = "requiresClientSide"]
             ELSE [sent EXCEPT !.next = @ + 1]
    /\ UNCHANGED triggerFrame

TriggerInit == QuorumAtRest /\ WebhookAtRest /\ RoutesAtRest

TriggerNext ==
    \/ \E credentials \in BOOLEAN : TriggerStart(credentials)
    \/ \E answer \in Answers : TriggerFetch(answer)

TriggerSpec == TriggerInit /\ [][TriggerNext]_vars

\* ---- specification of the wallet and delegate routes
Range(seq) == {seq[i] : i \in 1..Len(seq)}

\* Store.updateVault: { ...vault, ...updates } set under id.
updateVault(id, updates) ==
    IF id \notin DOMAIN vaults THEN vaults
    ELSE [vaults EXCEPT ![id] =
             [f \in DOMAIN vaults[id] \cup DOMAIN updates |->
                 IF f \in DOMAIN updates THEN updates[f] ELSE vaults[id][f]]]

\* The route answers and is done; what it answered stays readable.
Answered(r, result) ==
    [IdleRequest EXCEPT !.kind = requests[r].kind, !.email = requests[r].email,
                        !.result = result]

\* POST /api/wallets up to the upstream call: the body is read and the vault
\* is looked up; the handler keeps the vault object it found.
WalletStart(r, dynamicVaultId) ==
    /\ requests[r].pc = "idle"
    /\ requests' = [requests EXCEPT ![r] =
          IF dynamicVaultId = Absent
          THEN [IdleRequest EXCEPT !.kind = "wallet", !.result = "400"]
          ELSE [IdleRequest EXCEPT !.pc = "upstream", !.kind = "wallet",
                                   !.vault = vaults[dynamicVaultId]]]
    /\ UNCHANGED <<quorumVars, webhookVars, response, trigger, vaults, wallets>>

\* walletIds: [...vault.walletIds, created.id], vault being the object found
\* before the upstream call.
WalletIdsWritten(vault, id) == Append(vault.walletIds, id)

\* POST /api/wallets after dynamicLabsService.createWallet: a rejection is
\* answered with 500; otherwise the wallet record is created under a fresh id
\* and the vault's walletIds are rewritten.
WalletFinish(r, ok, id) ==
    /\ requests[r].pc = "upstream"
    /\ IF ~ok
       THEN /\ requests' = [requests EXCEPT ![r] = Answered(r, "500")]
            /\ UNCHANGED <<vaults, wallets>>
       ELSE /\ id \notin wallets
            /\ wallets' = wallets \cup {id}
            /\ vaults' = updateVault(requests[r].vault.id,
                                     [walletIds |-> WalletIdsWritten(requests[r].vault, id)])
            /\ requests' = [requests EXCEPT ![r] =
                               [Answered(r, "created") EXCEPT !.created = id]]
    /\ UNCHANGED <<quorumVars, webhookVars, response, trigger>>

\* Lines 113-147 of the delegate route: the vault's delegateEmails are
\* rewritten from the vault object found earlier, and a temporary record is
\* stored when a walletId was given.
DelegateStored(localVault, delegateEmail, walletId, id) ==
    LET updatedDelegateEmails ==
            IF delegateEmail \in Range(localVault.delegateEmails)
            THEN localVault.delegateEmails
            ELSE Append(localVault.delegateEmails, delegateEmail)
    IN /\ vaults' = updateVault(localVault.id, [delegateEmails |-> updatedDelegateEmails])
       /\ IF walletId # Absent
          THEN delegatedAccesses' = createDelegatedAccess(id, TemporaryDelegation(walletId))
          ELSE UNCHANGED delegatedAccesses

\* POST /api/vaults/[id]/delegate up to triggerDelegation: body and user are
\* checked, the local vault is looked up and the email compared with its
\* list; without a walletId nothing is awaited and the store is written at
\* once.
DelegateStart(r, v, delegateEmail, walletId, userFound, id) ==
    /\ requests[r].pc = "idle"
    /\ LET localVault == vaults[v]
           taken == [IdleRequest EXCEPT !.kind = "delegate", !.email = delegateEmail]
       IN IF delegateEmail = Absent
          THEN /\ requests' = [requests EXCEPT ![r] = [taken EXCEPT !.result = "400"]]
               /\ UNCHANGED <<vaults, delegatedAccesses>>
          ELSE IF ~userFound
          THEN /\ requests' = [requests EXCEPT ![r] = [taken EXCEPT !.result = "404"]]
               /\ UNCHANGED <<vaults, delegatedAccesses>>
          ELSE IF delegateEmail \in Range(localVault.delegateEmails)
          THEN /\ requests' = [requests EXCEPT ![r] = [taken EXCEPT !.result = "already"]]
               /\ UNCHANGED <<vaults, delegatedAccesses>>
          ELSE IF walletId # Absent
          THEN /\ requests' = [requests EXCEPT ![r] =
                                  [taken EXCEPT !.pc = "trigger", !.vault = localVault,
                                                !.walletId = walletId]]
               /\ UNCHANGED <<vaults, delegatedAccesses>>
          ELSE /\ DelegateStored(localVault, delegateEmail, walletId, id)
               /\ requests' = [requests EXCEPT ![r] = [taken EXCEPT !.result = "success"]]
    /\ UNCHANGED <<quorumVars, deliveries, privateKeyPem, webhookSecret, log, response,
                   trigger, wallets>>

\* The delegate route after triggerDelegation, whatever it returned or threw.
DelegateFinish(r, id) ==
    /\ requests[r].pc = "trigger"
    /\ DelegateStored(requests[r].vault, requests[r].email, requests[r].walletId, id)
    /\ requests' = [requests EXCEPT ![r] = Answered(r, "success")]
    /\ UNCHANGED <<quorumVars, deliveries, privateKeyPem, webhookSecret, log, response,
                   trigger, wallets>>

VaultInit == QuorumAtRest /\ WebhookAtRest /\ RoutesAtRest

VaultNext ==
    \/ \E r \in RequestSlots, dynamicVaultId \in VaultIds \cup {Absent} :
          WalletStart(r, dynamicVaultId)
    \/ \E r \in RequestSlots, ok \in BOOLEAN, id \in WalletRecordIds : WalletFinish(r, ok, id)
    \/ \E r \in RequestSlots, v \in VaultIds, delegateEmail \in Emails \cup {Absent},
          walletId \in {"w1", Absent}, userFound \in BOOLEAN, id \in TempIds :
          DelegateStart(r, v, delegateEmail, walletId, userFound, id)
    \/ \E r \in RequestSlots, id \in TempIds : DelegateFinish(r, id)

VaultSpec == VaultInit /\ [][VaultNext]_vars


WebhookInit ==
    /\ ledgerOwners = OwnerIds
    /\ ledgerThreshold = 2
    /\ ledgerNonce = 0
    /\ ledgerExecuted = {}
    /\ ledgerChanges = 0
    /\ relayTxs = NoTxs
    /\ wallet = [s \in Sessions |-> NoWallet]
    /\ owners = [s \in Sessions |-> {Checksummed(o) : o \in OwnerIds}]
    /\ threshold = [s \in Sessions |-> 2]
    /\ pendingTxs = [s \in Sessions |-> NoTxs]
    /\ isSigning = [s \in Sessions |-> NoHash]
    /\ error = [s \in Sessions |-> ""]
    /\ ops = [s \in Sessions |-> [k \in Slots |-> IdleOp]]
    /\ lastCall = NoCall
    /\ delegatedAccesses = NoRecords
    /\ deliveries = [d \in Deliveries |-> IdleDelivery]
    /\ privateKeyPem = PemEscaped
    /\ webhookSecret \in BOOLEAN
    /\ log = {}
    /\ RoutesAtRest

\* Deliveries handled while others are in flight.
WebhookNext ==
    \/ /\ \E d \in Deliveries, webhook \in Webhooks : Receive(d, webhook)
       /\ UNCHANGED <<quorumVars, routeVars>>
    \/ /\ \E d \in Deliveries : Process(d)
       /\ UNCHANGED <<quorumVars, routeVars>>
    \/ /\ \E d \in Deliveries, id \in RecordIds : Materialize(d, id)
       /\ UNCHANGED <<quorumVars, routeVars>>

WebhookSpec == WebhookInit /\ [][WebhookNext]_vars

\* Deliveries handled one after the other.
NoDeliveryInFlight == \A d \in Deliveries : deliveries[d].pc = "idle"

SequentialNext ==
    \/ /\ NoDeliveryInFlight
       /\ \E d \in Deliveries, webhook \in Webhooks : Receive(d, webhook)
       /\ UNCHANGED <<quorumVars, routeVars>>
    \/ /\ \E d \in Deliveries : Process(d)
       /\ UNCHANGED <<quorumVars, routeVars>>
    \/ /\ \E d \in Deliveries, id \in RecordIds : Materialize(d, id)
       /\ UNCHANGED <<quorumVars, routeVars>>

SequentialSpec == WebhookInit /\ [][SequentialNext]_vars

Init ==
    /\ ledgerOwners = OwnerIds
    /\ ledgerThreshold = 2
    /\ ledgerNonce = 0
    /\ ledgerExecuted = {}
    /\ ledgerChanges = 0
    /\ relayTxs = NoTxs
    /\ wallet \in [Sessions -> Wallets]
    /\ owners = [s \in Sessions |-> {Checksummed(o) : o \in OwnerIds}]
    /\ threshold = [s \in Sessions |-> 2]
    /\ pendingTxs = [s \in Sessions |-> NoTxs]
    /\ isSigning = [s \in Sessions |-> NoHash]
    /\ error = [s \in Sessions |-> ""]
    /\ ops = [s \in Sessions |-> [k \in Slots |-> IdleOp]]
    /\ lastCall = NoCall
    /\ delegatedAccesses = NoRecords
    /\ deliveries = [d \in Deliveries |-> IdleDelivery]
    /\ privateKeyPem = PemText
    /\ webhookSecret = FALSE
    /\ log = {}
    /\ RoutesAtRest

\* ---------------------------------------------------------- collaborators
\* Mutant: the proposal is recorded without the proposer's confirmation.
Propose_WithoutConfirmation(o, p) ==
    LET h == TransactionHash(p, ledgerNonce) IN
    /\ relayTxs = NoTxs
    /\ ledgerExecuted = {}
    /\ o \in ledgerOwners
    /\ IF ledgerThreshold = 1
       THEN /\ ledgerNonce' = ledgerNonce + 1
            /\ ledgerExecuted' = ledgerExecuted \cup {h}
            /\ UNCHANGED relayTxs
       ELSE /\ relayTxs' = [k \in {h} |-> NoEntry]
            /\ UNCHANGED <<ledgerNonce, ledgerExecuted>>
    /\ UNCHANGED <<ledgerOwners, ledgerThreshold, ledgerChanges, hookVars, pendingTxs,
                   isSigning, error, ops, lastCall>>

\* Mutant: the signed transaction is executed whatever the threshold
\* (executeTransaction called in place of proposeTransaction).
Propose_AlwaysExecutes(o, p) ==
    LET h == TransactionHash(p, ledgerNonce) IN
    /\ relayTxs = NoTxs
    /\ ledgerExecuted = {}
    /\ o \in ledgerOwners
    /\ ledgerNonce' = ledgerNonce + 1
    /\ ledgerExecuted' = ledgerExecuted \cup {h}
    /\ UNCHANGED <<relayTxs, ledgerOwners, ledgerThreshold, ledgerChanges, hookVars,
                   pendingTxs, isSigning, error, ops, lastCall>>

\* ngo-transaction.tsx: create, sign, then execute at once when the threshold
\* is 1 and propose to the relay otherwise.  The model follows one
\* transaction of the account: the first one created.
Propose(o, p) ==
    LET h == TransactionHash(p, ledgerNonce) IN
    /\ relayTxs = NoTxs
    /\ ledgerExecuted = {}
    /\ o \in ledgerOwners
    /\ IF ledgerThreshold = 1
       THEN /\ ledgerNonce' = ledgerNonce + 1
            /\ ledgerExecuted' = ledgerExecuted \cup {h}
            /\ UNCHANGED relayTxs
       ELSE /\ relayTxs' = [k \in DOMAIN relayTxs \cup {h} |->
                              IF k = h
                              THEN [confirmations |-> <<Confirmation(o, Signature(o, h))>>,
                                    isExecuted |-> FALSE]
                              ELSE relayTxs[k]]
            /\ UNCHANGED <<ledgerNonce, ledgerExecuted>>
    /\ UNCHANGED <<ledgerOwners, ledgerThreshold, ledgerChanges, hookVars, pendingTxs,
                   isSigning, error, ops, lastCall>>

\* signer-manager.tsx: an owner is removed or the threshold updated, by a
\* transaction of the account executed on the ledger (it takes a nonce).
ManageSigners(newOwners, newThreshold) ==
    /\ ledgerChanges < MaxChanges
    /\ newThreshold \in 1..Cardinality(newOwners)
    /\ \/ newOwners = ledgerOwners /\ newThreshold # ledgerThreshold
       \/ /\ \E o \in ledgerOwners : newOwners = ledgerOwners \ {o}
          /\ newThreshold = ledgerThreshold
    /\ ledgerOwners' = newOwners
    /\ ledgerThreshold' = newThreshold
    /\ ledgerNonce' = ledgerNonce + 1
    /\ ledgerChanges' = ledgerChanges + 1
    /\ UNCHANGED <<ledgerExecuted, relayTxs, hookVars, pendingTxs,
                   isSigning, error, ops, lastCall>>

\* The relay lists a confirmation that carries no signature data (an approval
\* given on the ledger instead of a signature).
RelayConfirmationWithoutSignature(h, o) ==
    /\ h \in DOMAIN relayTxs
    /\ ~relayTxs[h].isExecuted
    /\ o \in ledgerOwners
    /\ ~HasConfirmation(relayTxs[h].confirmations, o)
    /\ relayTxs' = [relayTxs EXCEPT ![h].confirmations = Append(@, Confirmation(o, NoSig))]
    /\ UNCHANGED <<ledgerVars, hookVars, pendingTxs, isSigning, error, ops,
                   lastCall>>

\* The sessions of the other owners act on the same relay and ledger.  One of
\* them confirms: its handleSignTransaction signs the transaction recreated
\* from the entry h (at the ledger's current nonce) and the relay accepts.
OtherSessionConfirms(h, o) ==
    /\ RelayConfirmResult(h, Signature(o, TransactionHash(PayloadOf(h), ledgerNonce))) = "ok"
    /\ relayTxs' = RelayWithConfirmation(h, Signature(o, h))
    /\ UNCHANGED <<ledgerVars, hookVars, pendingTxs, isSigning, error, ops,
                   lastCall>>

\* One of them executes: its handleExecuteTransaction submits the signatures
\* the relay lists and the ledger accepts.
OtherSessionExecutes(h) ==
    /\ h \in DOMAIN relayTxs
    /\ LedgerAccepts(h, EncodedSignatures(AddSignatures(relayTxs[h].confirmations,
                                                        NoSignatures)))
    /\ ledgerNonce' = ledgerNonce + 1
    /\ ledgerExecuted' = ledgerExecuted \cup {h}
    /\ relayTxs' = RelayWithExecuted(h)
    /\ UNCHANGED <<ledgerOwners, ledgerThreshold, ledgerChanges, hookVars,
                   pendingTxs, isSigning, error, ops, lastCall>>

\* useSafeProtocolKit: owners and threshold are read from the ledger when the
\* hook (re)loads, and kept until it loads again.
HookRefresh(s) ==
    /\ \/ owners[s] # {Checksummed(o) : o \in ledgerOwners}
       \/ threshold[s] # ledgerThreshold
    /\ owners' = [owners EXCEPT ![s] = {Checksummed(o) : o \in ledgerOwners}]
    /\ threshold' = [threshold EXCEPT ![s] = ledgerThreshold]
    /\ UNCHANGED <<ledgerVars, relayTxs, wallet, pendingTxs, isSigning, error,
                   ops, lastCall>>

\* --------------------------------------------------------------- handlers
\* loadPendingTransactions, from the effect on mount or the Refresh button.
Refresh(s) ==
    /\ \E ok \in BOOLEAN :
          /\ pendingTxs' = [pendingTxs EXCEPT ![s] = LoadedTxs(ok)]
          /\ error' = [error EXCEPT ![s] = LoadedError(ok)]
    /\ UNCHANGED <<ledgerVars, relayTxs, hookVars, isSigning, ops, lastCall>>

\* What every failing handler does: setError(message), then setIsSigning(null)
\* in finally, and the invocation is over.
Failed(s, k, message) ==
    /\ error' = [error EXCEPT ![s] = message]
    /\ isSigning' = [isSigning EXCEPT ![s] = NoHash]
    /\ ops' = [ops EXCEPT ![s][k] = IdleOp]

\* handleSignTransaction up to confirmTx: the wallet, owner and already-signed
\* checks on the entry tx of the list, then setIsSigning; the transaction is
\* recreated from to, value and data of the entry (the SDK fills in the
\* ledger's current nonce), its hash is logged next to tx.safeTxHash, and the
\* wallet signs it (signed is FALSE when the wallet gives no signature).
SignStart(s, k, h, signed) ==
    /\ ButtonEnabled(s, h)
    /\ FreeSlot(s, k)
    /\ LET tx == pendingTxs[s][h]
           currentAddress == getAddress(wallet[s])
           recreatedHash == TransactionHash(PayloadOf(h), ledgerNonce)
           signature == Signature(wallet[s].id, recreatedHash)
       IN IF wallet[s] = NoWallet
          THEN /\ error' = [error EXCEPT ![s] = "NotConnected"]
               /\ UNCHANGED <<isSigning, ops>>
          ELSE IF currentAddress \notin owners[s]
          THEN /\ error' = [error EXCEPT ![s] = "NotOwner"]
               /\ UNCHANGED <<isSigning, ops>>
          ELSE IF HasAlreadySigned(tx.confirmations, currentAddress)
          THEN /\ error' = [error EXCEPT ![s] = "AlreadySigned"]
               /\ UNCHANGED <<isSigning, ops>>
          ELSE IF ~signed
          THEN /\ error' = [error EXCEPT ![s] = "SignFailed"]
               /\ UNCHANGED <<isSigning, ops>>
          ELSE /\ isSigning' = [isSigning EXCEPT ![s] = h]
               /\ error' = [error EXCEPT ![s] = ""]
               /\ ops' = [ops EXCEPT ![s][k] =
                            [IdleOp EXCEPT !.pc = "confirm", !.hash = h, !.sig = signature]]
    /\ UNCHANGED <<ledgerVars, relayTxs, hookVars, pendingTxs, lastCall>>

\* Mutant: an answer of the relay other than ok is swallowed and the handler
\* goes on as if the confirmation had been recorded.
SignConfirm_ErrorSwallowed(s, k) ==
    /\ ops[s][k].pc = "confirm"
    /\ LET h == ops[s][k].hash
           answer == RelayConfirmResult(h, ops[s][k].sig)
       IN /\ relayTxs' = IF answer = "ok" THEN RelayWithConfirmation(h, ops[s][k].sig)
                         ELSE relayTxs
          /\ ops' = [ops EXCEPT ![s][k].pc = "signed"]
          /\ UNCHANGED <<error, isSigning>>
    /\ UNCHANGED <<ledgerVars, hookVars, pendingTxs, lastCall>>

\* Mutant: the handler throws on the answer of the relay after the relay has
\* recorded the confirmation.
SignConfirm_FailsAfterRecording(s, k) ==
    /\ ops[s][k].pc = "confirm"
    /\ LET h == ops[s][k].hash
           answer == RelayConfirmResult(h, ops[s][k].sig)
       IN IF answer = "ok"
          THEN /\ relayTxs' = RelayWithConfirmation(h, ops[s][k].sig)
               /\ Failed(s, k, "Relay:BadAnswer")
          ELSE /\ Failed(s, k, answer)
               /\ UNCHANGED relayTxs
    /\ UNCHANGED <<ledgerVars, hookVars, pendingTxs, lastCall>>

\* handleSignTransaction: confirmTx(tx.safeTxHash, signature).
SignConfirm(s, k) ==
    /\ ops[s][k].pc = "confirm"
    /\ LET h == ops[s][k].hash
           answer == RelayConfirmResult(h, ops[s][k].sig)
       IN IF answer = "ok"
          THEN /\ relayTxs' = RelayWithConfirmation(h, ops[s][k].sig)
               /\ ops' = [ops EXCEPT ![s][k].pc = "signed"]
               /\ UNCHANGED <<error, isSigning>>
          ELSE /\ Failed(s, k, answer)
               /\ UNCHANGED relayTxs
    /\ UNCHANGED <<ledgerVars, hookVars, pendingTxs, lastCall>>

\* Mutant: the list is not loaded again after the confirmation.
SignReload_NoReload(s, k) ==
    /\ ops[s][k].pc = "signed"
    /\ isSigning' = [isSigning EXCEPT ![s] = NoHash]
    /\ ops' = [ops EXCEPT ![s][k] = IdleOp]
    /\ UNCHANGED <<ledgerVars, relayTxs, hookVars, pendingTxs, error, lastCall>>

\* handleSignTransaction: await loadPendingTransactions(), then finally.
SignReload(s, k) ==
    /\ ops[s][k].pc = "signed"
    /\ \E ok \in BOOLEAN :
          /\ pendingTxs' = [pendingTxs EXCEPT ![s] = LoadedTxs(ok)]
          /\ error' = [error EXCEPT ![s] = LoadedError(ok)]
    /\ isSigning' = [isSigning EXCEPT ![s] = NoHash]
    /\ ops' = [ops EXCEPT ![s][k] = IdleOp]
    /\ UNCHANGED <<ledgerVars, relayTxs, hookVars, lastCall>>

\* handleExecuteTransaction up to its first await: the wallet check and the
\* threshold check on the confirmations of the entry tx, then setIsSigning.
ExecStart(s, k, h) ==
    /\ ButtonEnabled(s, h)
    /\ FreeSlot(s, k)
    /\ LET tx == pendingTxs[s][h]
           confirmations == tx.confirmations
       IN IF wallet[s] = NoWallet
          THEN /\ error' = [error EXCEPT ![s] = "NotConnected"]
               /\ UNCHANGED <<isSigning, ops>>
          ELSE IF Len(confirmations) < threshold[s]
          THEN /\ error' = [error EXCEPT ![s] = "ThresholdNotMet"]
               /\ UNCHANGED <<isSigning, ops>>
          ELSE /\ isSigning' = [isSigning EXCEPT ![s] = h]
               /\ error' = [error EXCEPT ![s] = ""]
               /\ ops' = [ops EXCEPT ![s][k] =
                            [IdleOp EXCEPT !.pc = "execute", !.hash = h,
                                           !.confs = confirmations,
                                           !.thr = threshold[s]]]
    /\ UNCHANGED <<ledgerVars, relayTxs, hookVars, pendingTxs, lastCall>>

\* Mutant: the signatures reach the ledger in the order of the confirmations.
ExecSubmit_Unsorted(s, k, up) ==
    /\ ops[s][k].pc = "execute"
    /\ LET h == ops[s][k].hash
           confirmations == ops[s][k].confs
           safeTransactionData == getTx(h)
           recreatedHash == TransactionHash(PayloadOf(h), ledgerNonce)
           kept == SelectSeq(confirmations, LAMBDA c : c.signature # NoSig)
           bundle == [i \in 1..Len(kept) |->
                        [signer |-> getAddress(kept[i].owner), data |-> kept[i].signature]]
           accepted == LedgerAccepts(recreatedHash, bundle)
       IN IF ~up
          THEN /\ Failed(s, k, "Relay:Unavailable")
               /\ UNCHANGED <<ledgerNonce, ledgerExecuted, relayTxs, lastCall>>
          ELSE /\ lastCall' = [by |-> s, tx |-> h, recreated |-> recreatedHash,
                               bundle |-> bundle, confs |-> confirmations,
                               fetched |-> safeTransactionData.confirmations,
                               thr |-> ops[s][k].thr,
                               wasExecuted |-> h \in ledgerExecuted,
                               accepted |-> accepted]
               /\ IF accepted
                  THEN /\ ledgerNonce' = ledgerNonce + 1
                       /\ ledgerExecuted' = ledgerExecuted \cup {recreatedHash}
                       /\ relayTxs' = RelayWithExecuted(recreatedHash)
                       /\ ops' = [ops EXCEPT ![s][k].pc = "executed"]
                       /\ UNCHANGED <<error, isSigning>>
                  ELSE /\ Failed(s, k, "Ledger:Rejected")
                       /\ UNCHANGED <<ledgerNonce, ledgerExecuted, relayTxs>>
    /\ UNCHANGED <<ledgerOwners, ledgerThreshold, ledgerChanges, hookVars, pendingTxs>>

\* handleExecuteTransaction: safeTransactionData = await getTx(tx.safeTxHash);
\* the transaction is recreated from to, value and data of the fetched entry,
\* the signatures of the confirmations are added, and executeTransaction
\* hands transaction and bundle to the ledger.
ExecSubmit(s, k, up) ==
    /\ ops[s][k].pc = "execute"
    /\ LET h == ops[s][k].hash
           confirmations == ops[s][k].confs
           safeTransactionData == getTx(h)
           recreatedHash == TransactionHash(PayloadOf(h), ledgerNonce)
           bundle == EncodedSignatures(AddSignatures(confirmations, NoSignatures))
           accepted == LedgerAccepts(recreatedHash, bundle)
       IN IF ~up
          THEN /\ Failed(s, k, "Relay:Unavailable")
               /\ UNCHANGED <<ledgerNonce, ledgerExecuted, relayTxs, lastCall>>
          ELSE /\ lastCall' = [by |-> s, tx |-> h, recreated |-> recreatedHash,
                               bundle |-> bundle, confs |-> confirmations,
                               fetched |-> safeTransactionData.confirmations,
                               thr |-> ops[s][k].thr,
                               wasExecuted |-> h \in ledgerExecuted,
                               accepted |-> accepted]
               /\ IF accepted
                  THEN /\ ledgerNonce' = ledgerNonce + 1
                       /\ ledgerExecuted' = ledgerExecuted \cup {recreatedHash}
                       /\ relayTxs' = RelayWithExecuted(recreatedHash)
                       /\ ops' = [ops EXCEPT ![s][k].pc = "executed"]
                       /\ UNCHANGED <<error, isSigning>>
                  ELSE /\ Failed(s, k, "Ledger:Rejected")
                       /\ UNCHANGED <<ledgerNonce, ledgerExecuted, relayTxs>>
    /\ UNCHANGED <<ledgerOwners, ledgerThreshold, ledgerChanges, hookVars, pendingTxs>>

\* handleExecuteTransaction: await loadPendingTransactions(), then finally.
ExecReload(s, k) ==
    /\ ops[s][k].pc = "executed"
    /\ \E ok \in BOOLEAN :
          /\ pendingTxs' = [pendingTxs EXCEPT ![s] = LoadedTxs(ok)]
          /\ error' = [error EXCEPT ![s] = LoadedError(ok)]
    /\ isSigning' = [isSigning EXCEPT ![s] = NoHash]
    /\ ops' = [ops EXCEPT ![s][k] = IdleOp]
    /\ UNCHANGED <<ledgerVars, relayTxs, hookVars, lastCall>>

Next ==
    \/ /\ \E o \in OwnerIds, p \in Payloads : Propose(o, p)
       /\ UNCHANGED <<webhookVars, routeVars>>
    \/ /\ \E newOwners \in SUBSET OwnerIds, t \in 1..Cardinality(OwnerIds) :
             ManageSigners(newOwners, t)
       /\ UNCHANGED <<webhookVars, routeVars>>
    \/ /\ \E h \in DOMAIN relayTxs, o \in OwnerIds : RelayConfirmationWithoutSignature(h, o)
       /\ UNCHANGED <<webhookVars, routeVars>>
    \/ /\ \E h \in DOMAIN relayTxs, o \in OwnerIds : OtherSessionConfirms(h, o)
       /\ UNCHANGED <<webhookVars, routeVars>>
    \/ /\ \E h \in DOMAIN relayTxs : OtherSessionExecutes(h)
       /\ UNCHANGED <<webhookVars, routeVars>>
    \/ /\ \E s \in Sessions : HookRefresh(s)
       /\ UNCHANGED <<webhookVars, routeVars>>
    \/ /\ \E s \in Sessions : Refresh(s)
       /\ UNCHANGED <<webhookVars, routeVars>>
    \/ /\ \E s \in Sessions, k \in Slots, signed \in BOOLEAN :
             \E h \in DOMAIN pendingTxs[s] : SignStart(s, k, h, signed)
       /\ UNCHANGED <<webhookVars, routeVars>>
    \/ /\ \E s \in Sessions, k \in Slots : SignConfirm(s, k)
       /\ UNCHANGED <<webhookVars, routeVars>>
    \/ /\ \E s \in Sessions, k \in Slots : SignReload(s, k)
       /\ UNCHANGED <<webhookVars, routeVars>>
    \/ /\ \E s \in Sessions, k \in Slots : \E h \in DOMAIN pendingTxs[s] : ExecStart(s, k, h)
       /\ UNCHANGED <<webhookVars, routeVars>>
    \/ /\ \E s \in Sessions, k \in Slots, up \in BOOLEAN : ExecSubmit(s, k, up)
       /\ UNCHANGED <<webhookVars, routeVars>>
    \/ /\ \E s \in Sessions, k \in Slots : ExecReload(s, k)
       /\ UNCHANGED <<webhookVars, routeVars>>

Spec == Init /\ [][Next]_vars

\* ------------------------------------------- two transactions on the list
\* The component with two entries on its list: the user can click a button of
\* one entry while the handler of another is at an await.
ButtonSlots == {1, 2}
ButtonPayloads == {"p1", "p2"}
ButtonProposer == 1

\* Two proposals of owner 1 wait on the relay, each with the proposer's
\* confirmation; the session's wallet is an owner who has signed neither.
ButtonInit ==
    /\ ledgerOwners = OwnerIds
    /\ ledgerThreshold = 2
    /\ ledgerNonce = 0
    /\ ledgerExecuted = {}
    /\ ledgerChanges = 0
    /\ relayTxs = [h \in {TransactionHash(p, 0) : p \in ButtonPayloads} |->
                      [confirmations |->
                           <<Confirmation(ButtonProposer, Signature(ButtonProposer, h))>>,
                       isExecuted |-> FALSE]]
    /\ wallet \in [Sessions -> {w \in Wallets : w.id \in OwnerIds}]
    /\ owners = [s \in Sessions |-> {Checksummed(o) : o \in OwnerIds}]
    /\ threshold = [s \in Sessions |-> 2]
    /\ pendingTxs = [s \in Sessions |-> NoTxs]
    /\ isSigning = [s \in Sessions |-> NoHash]
    /\ error = [s \in Sessions |-> ""]
    /\ ops = [s \in Sessions |-> [k \in ButtonSlots |-> IdleOp]]
    /\ lastCall = NoCall
    /\ WebhookAtRest
    /\ RoutesAtRest

ButtonNext ==
    \/ /\ \E s \in Sessions : Refresh(s)
       /\ UNCHANGED <<webhookVars, routeVars>>
    \/ /\ \E s \in Sessions, k \in ButtonSlots, signed \in BOOLEAN :
             \E h \in DOMAIN pendingTxs[s] : SignStart(s, k, h, signed)
       /\ UNCHANGED <<webhookVars, routeVars>>
    \/ /\ \E s \in Sessions, k \in ButtonSlots : SignConfirm(s, k)
       /\ UNCHANGED <<webhookVars, routeVars>>
    \/ /\ \E s \in Sessions, k \in ButtonSlots : SignReload(s, k)
       /\ UNCHANGED <<webhookVars, routeVars>>
    \/ /\ \E s \in Sessions, k \in ButtonSlots :
             \E h \in DOMAIN pendingTxs[s] : ExecStart(s, k, h)
       /\ UNCHANGED <<webhookVars, routeVars>>
    \/ /\ \E s \in Sessions, k \in ButtonSlots, up \in BOOLEAN : ExecSubmit(s, k, up)
       /\ UNCHANGED <<webhookVars, routeVars>>
    \/ /\ \E s \in Sessions, k \in ButtonSlots : ExecReload(s, k)
       /\ UNCHANGED <<webhookVars, routeVars>>

ButtonSpec == ButtonInit /\ [][ButtonNext]_vars

\* ================================================================ claims
\* Confirmations the relay holds for h that name owner o.
ConfirmationsOf(confs, o) == {i \in 1..Len(confs) : confs[i].owner.id = o}

\* The list entry the session was given for h names the session's wallet.
ListedAsSigner(s, h) == HasConfirmation(pendingTxs[s][h].confirmations, wallet[s].id)

AtMostOneConfirmationPerOwner ==
    /\ \A h \in DOMAIN relayTxs : \A o \in OwnerIds :
           Cardinality(ConfirmationsOf(relayTxs[h].confirmations, o)) <= 1
    /\ \A s \in Sessions : \A h \in DOMAIN pendingTxs[s] : \A o \in OwnerIds :
           Cardinality(ConfirmationsOf(pendingTxs[s][h].confirmations, o)) <= 1

\* A sign attempt on an entry that already lists the owner's confirmation ends
\* with AlreadySigned and starts nothing.
LocalDuplicateRejected(s, k) ==
    \A h \in DOMAIN pendingTxs[s], signed \in BOOLEAN :
        (SignStart(s, k, h, signed) /\ IsOwner(s) /\ ListedAsSigner(s, h))
            => /\ error'[s] = "AlreadySigned"
               /\ UNCHANGED <<relayTxs, pendingTxs, ops, isSigning>>

\* A confirm that reaches the relay for an owner the relay already holds a
\* confirmation of is rejected, and the relay keeps its list.
RelayDuplicateRejected(s, k) ==
    (/\ SignConfirm(s, k)
     /\ HasConfirmation(relayTxs[ops[s][k].hash].confirmations, wallet[s].id))
        => /\ relayTxs' = relayTxs
           /\ ops'[s][k] = IdleOp
           /\ error'[s] \in {"Relay:AlreadySigned", "Relay:HashMismatch", "Relay:AlreadyExecuted"}

C2_NoShortBundle ==
    lastCall.by # "none" => Len(lastCall.bundle) >= lastCall.thr

StrictlyAscending(bundle) ==
    /\ \A i \in 1..Len(bundle) : bundle[i].signer = getAddress(bundle[i].signer)
    /\ \A i \in 1..Len(bundle) - 1 : bundle[i].signer.id < bundle[i + 1].signer.id

C4_BundleFromFetch ==
    lastCall.by # "none"
        => lastCall.bundle = EncodedSignatures(AddSignatures(lastCall.fetched, NoSignatures))

\* C5: a transaction the ledger has executed is never submitted to the ledger
\* again, also when the execute starts from a list loaded before the execution.
C5_NoResubmission ==
    lastCall.by # "none" => ~lastCall.wasExecuted

\* C6: a confirmation is sent for a pending transaction only with a signature
\* that verifies against the identity hash of that transaction; a signature over
\* another hash ends the handler with HashMismatch before anything is sent.
C6_HashMismatchRejected ==
    \A s \in Sessions, k \in Slots :
        ops[s][k].pc = "confirm" => Recover(ops[s][k].sig, ops[s][k].hash) = wallet[s].id

\* C7: a confirm attempt by a wallet that is not an owner on the ledger at that
\* moment (an owner removed after the proposal included) ends with NotOwner and
\* starts nothing; the owner set consulted is the ledger's, not the cached one.
C7_NotOwnerRejected ==
    [][\A s \in Sessions, k \in Slots :
          \A h \in DOMAIN pendingTxs[s], signed \in BOOLEAN :
              (/\ SignStart(s, k, h, signed)
               /\ wallet[s] # NoWallet
               /\ wallet[s].id \notin ledgerOwners)
                  => /\ error'[s] = "NotOwner"
                     /\ UNCHANGED <<relayTxs, ops, isSigning>>]_vars

RelayExecutable(h) ==
    ~relayTxs[h].isExecuted /\ Len(relayTxs[h].confirmations) >= ledgerThreshold

\* A confirm the handler takes for recorded is recorded at the relay.
ConfirmedIsRecorded ==
    \A s \in Sessions, k \in Slots :
        ops[s][k].pc = "signed" =>
            \E i \in 1..Len(relayTxs[ops[s][k].hash].confirmations) :
                relayTxs[ops[s][k].hash].confirmations[i] =
                    Confirmation(wallet[s].id, ops[s][k].sig)

FailedAttempt(s, k) ==
    \/ \E h \in DOMAIN pendingTxs[s], signed \in BOOLEAN :
          SignStart(s, k, h, signed) /\ ops' = ops
    \/ \E h \in DOMAIN pendingTxs[s] : ExecStart(s, k, h) /\ ops' = ops
    \/ SignConfirm(s, k) /\ ops'[s][k].pc = "idle"
    \/ \E up \in BOOLEAN : ExecSubmit(s, k, up) /\ ops'[s][k].pc = "idle"

\* C10: a confirm or execute attempt that fails reports an error and leaves
\* the relay's transactions and confirmations, the ledger and the session's
\* list as they were.
C10_FailureChangesNothing ==
    [][\A s \in Sessions, k \in Slots :
          FailedAttempt(s, k)
              => /\ error'[s] # ""
                 /\ UNCHANGED <<relayTxs, ledgerVars, pendingTxs>>]_vars

\* C10 witness: the ledger rejected an execute and the transaction is still
\* pending at the relay with its confirmations.
C10_Witness ==
    \E s \in Sessions :
        /\ error[s] = "Ledger:Rejected"
        /\ lastCall.by = s
        /\ ~lastCall.accepted
        /\ lastCall.tx \in DOMAIN relayTxs
        /\ ~relayTxs[lastCall.tx].isExecuted
        /\ relayTxs[lastCall.tx].confirmations = lastCall.fetched

\* The transaction h has reached a terminal state: the relay lists it as
\* executed, or the ledger rejected the last execute of it.
Terminal(h) ==
    \/ relayTxs[h].isExecuted
    \/ lastCall.by # "none" /\ lastCall.tx = h /\ ~lastCall.accepted

\* A step of a propose, confirm or execute operation, of any session.
QuorumOperation ==
    \/ \E o \in OwnerIds, p \in Payloads : Propose(o, p)
    \/ \E h \in DOMAIN relayTxs, o \in OwnerIds : OtherSessionConfirms(h, o)
    \/ \E h \in DOMAIN relayTxs : OtherSessionExecutes(h)
    \/ \E s \in Sessions, k \in Slots :
          \/ \E h \in DOMAIN pendingTxs[s], signed \in BOOLEAN : SignStart(s, k, h, signed)
          \/ SignConfirm(s, k)
          \/ \E h \in DOMAIN pendingTxs[s] : ExecStart(s, k, h)
          \/ \E up \in BOOLEAN : ExecSubmit(s, k, up)

\* C11: once a transaction is executed, or an execute of it was rejected by the
\* ledger, no later step changes its state or its confirmations.
C11_TerminalStates ==
    [][\A h \in DOMAIN relayTxs :
          (Terminal(h) /\ QuorumOperation) => relayTxs'[h] = relayTxs[h]]_vars

C13_ImmediateIffThresholdOne ==
    [][\A o \in OwnerIds, p \in Payloads :
          Propose(o, p) =>
              LET h == TransactionHash(p, ledgerNonce) IN
              /\ ledgerThreshold = 1 <=> h \in ledgerExecuted'
              /\ ledgerThreshold = 1 <=> relayTxs' = NoTxs
              /\ ledgerThreshold > 1 =>
                    /\ h \in DOMAIN relayTxs'
                    /\ ~relayTxs'[h].isExecuted
                    /\ UNCHANGED ledgerVars]_vars

\* C13 witness: the threshold was lowered to 1 and the created transaction
\* was executed without reaching the relay.
C13_Witness ==
    /\ ledgerThreshold = 1
    /\ ledgerExecuted # {}
    /\ relayTxs = NoTxs

\* The ids of the records the store holds for an eventId.
RecordsOf(eventId) ==
    {id \in DOMAIN delegatedAccesses : delegatedAccesses[id].eventId = eventId}

\* A delivery taken in this step whose eventId has a record in the store.
TakenForRecordedEvent(d) ==
    /\ deliveries[d].pc = "idle"
    /\ deliveries'[d] # deliveries[d]
    /\ \E e \in EventIds : deliveries'[d].webhook.eventId = e /\ RecordsOf(e) # {}

\* C14: with deliveries handled one after the other, the store never holds two
\* records of one eventId, and a delivery whose eventId has a record ends as a
\* duplicate and leaves the store as it was.
C14_OneRecordPerEvent ==
    /\ [](\A e \in EventIds : Cardinality(RecordsOf(e)) <= 1)
    /\ [][\A d \in Deliveries :
            TakenForRecordedEvent(d) =>
                /\ deliveries'[d].result = "duplicate"
                /\ deliveries'[d].pc = "idle"
                /\ delegatedAccesses' = delegatedAccesses]_vars

\* C14 witness: an event was stored and delivered again; one record is held.
C14_Witness ==
    \E d \in Deliveries :
        /\ deliveries[d].result = "duplicate"
        /\ Cardinality(RecordsOf(deliveries[d].webhook.eventId)) = 1

\* C15: with deliveries handled concurrently, every event a delivery has
\* stored has exactly one record.
C15_ConcurrentExactlyOne ==
    \A d \in Deliveries :
        deliveries[d].result = "stored"
            => Cardinality(RecordsOf(deliveries[d].webhook.eventId)) = 1

C17_VerifiedBeforeDecrypt ==
    \A d \in Deliveries :
        deliveries[d].pc = "store" => deliveries[d].webhook.signatureValid

\* C18: materials are held only for a webhook both of whose envelopes were
\* wrapped with RSA-OAEP/SHA-256 and carry a verifying tag, and they are the
\* two plaintexts; a failed decryption has returned nothing.
C18_AllOrNothing ==
    \A d \in Deliveries :
        /\ deliveries[d].pc = "store" =>
              LET share == deliveries[d].webhook.encryptedDelegatedShare
                  apiKeyEnc == deliveries[d].webhook.encryptedWalletApiKey
              IN /\ share.padding = "oaep-sha256" /\ apiKeyEnc.padding = "oaep-sha256"
                 /\ share.tagOk /\ apiKeyEnc.tagOk
                 /\ deliveries[d].materials =
                        [ok |-> TRUE, delegatedShare |-> share.plain,
                         walletApiKey |-> apiKeyEnc.plain]
        /\ deliveries[d].result = "failed" => deliveries[d].materials = NoMaterials

\* C18 witness: one decryption has failed and another has returned materials.
C18_Witness ==
    \E d, other \in Deliveries :
        /\ deliveries[d].result = "failed"
        /\ deliveries[other].pc = "store"

\* C19: every record holds both plaintexts, and a delivery whose decryption
\* fails leaves the store as it was, without a record of its event.
C19_NoPartialRecord ==
    /\ [](\A id \in DOMAIN delegatedAccesses :
             /\ delegatedAccesses[id].delegatedShare \notin {Failure, NotJsonText, "none"}
             /\ delegatedAccesses[id].walletApiKey \notin {Failure, "none"})
    /\ [][\A d \in Deliveries :
            (deliveries[d].pc = "process" /\ deliveries'[d].result = "failed") =>
                /\ delegatedAccesses' = delegatedAccesses
                /\ \A id \in DOMAIN delegatedAccesses' :
                      delegatedAccesses'[id].eventId # deliveries[d].webhook.eventId]_vars

\* C19 witness: a decryption failed while the store held a record.
C19_Witness ==
    \E d \in Deliveries :
        /\ deliveries[d].result = "failed"
        /\ delegatedAccesses # NoRecords
        /\ RecordsOf(deliveries[d].webhook.eventId) = {}

\* C20: nothing written to the log holds a character of the key body.
C20_KeyNeverLogged ==
    \A entry \in log :
        \A i \in 1..KeyLogLength :
            entry.keyStartsWith[i] # "k" /\ entry.keyEndsWith[i] # "k"

\* The store with the two secret fields of every record blanked.
Scrubbed(store) ==
    [id \in DOMAIN store |->
        [store[id] EXCEPT !.delegatedShare = "none", !.walletApiKey = "none"]]

\* C21: every response of the list GET, the single GET and the PATCH is the
\* response the same request gets from the store with delegatedShare and
\* walletApiKey blanked, so stores that differ only there answer alike.
C21_NoSecretInResponse ==
    LET request == response.request
        public == Scrubbed(delegatedAccesses)
    IN /\ request.kind = "list" => response = ListResponse(public, request.walletId)
       /\ request.kind = "get" => response = GetResponse(public, request.id)
       /\ request.kind = "patch" => response = PatchResponse(public, request.id, request)

\* C21 witness: a list response about a record that holds decrypted materials.
C21_Witness ==
    /\ response.request.kind = "list"
    /\ \E id \in DOMAIN delegatedAccesses :
          /\ delegatedAccesses[id].delegatedShare \in Shares
          /\ delegatedAccesses[id].walletApiKey \in ApiKeys
          /\ \E item \in response.body : item.id = id

\* C22: the status of every record is pending, active or revoked.
C22_StatusInRange ==
    \A id \in DOMAIN delegatedAccesses :
        delegatedAccesses[id].status \in {"pending", "active", "revoked"}

\* C26: a PATCH leaves every other record and every field of the addressed
\* record other than status as they were, whatever the body carries; with no
\* status in the body or an unknown id the store is unchanged.
C26_PatchChangesStatusOnly ==
    [][(response'.request.kind = "patch"
           /\ (response' # response \/ delegatedAccesses' # delegatedAccesses)) =>
          LET id == response'.request.id IN
          /\ DOMAIN delegatedAccesses' = DOMAIN delegatedAccesses
          /\ \A k \in DOMAIN delegatedAccesses :
                /\ DOMAIN delegatedAccesses'[k] = DOMAIN delegatedAccesses[k]
                /\ \A f \in DOMAIN delegatedAccesses[k] :
                      (k # id \/ f # "status")
                          => delegatedAccesses'[k][f] = delegatedAccesses[k][f]
          /\ (~Truthy(response'.request.status) \/ id \notin DOMAIN delegatedAccesses)
                => delegatedAccesses' = delegatedAccesses]_vars

\* C26 witness: a PATCH has revoked a record that holds decrypted materials.
C26_Witness ==
    /\ response.request.kind = "patch"
    /\ response.status = 200
    /\ \E id \in DOMAIN delegatedAccesses :
          /\ id = response.request.id
          /\ delegatedAccesses[id].status = "revoked"
          /\ delegatedAccesses[id].delegatedShare \in Shares

C27_RebuiltIdentity ==
    /\ \A s \in Sessions, k \in Slots :
          ops[s][k].pc = "confirm" => ops[s][k].sig.hash = ops[s][k].hash
    /\ lastCall.by # "none" => lastCall.recreated = lastCall.tx

\* C24: an endpoint answering 401 or 403 is the last one contacted, and the
\* call ends there with an error.
C24_AuthErrorStops ==
    \A i \in 1..Len(trigger.answers) :
        trigger.answers[i] \in {"401", "403"} =>
            /\ Len(trigger.requests) = i
            /\ trigger.pc = "done"
            /\ trigger.result = "throw"

\* C25: the endpoints are contacted in their order, each at most once; the
\* first OK answer ends the call with success and is the last request made;
\* four 404 answers end the call with requiresClientSide.
C25_FirstOkWins ==
    /\ Len(trigger.requests) <= EndpointCount
    /\ \A i \in 1..Len(trigger.requests) : trigger.requests[i] = i
    /\ \A i \in 1..Len(trigger.answers) :
          ResponseOk(trigger.answers[i]) =>
              /\ Len(trigger.requests) = i
              /\ trigger.pc = "done"
              /\ trigger.result = "success"
    /\ (/\ trigger.pc = "done"
        /\ Len(trigger.answers) = EndpointCount
        /\ \A i \in 1..EndpointCount : trigger.answers[i] = "404")
          => trigger.result = "requiresClientSide"

\* C29: the walletIds of the vault hold the id of every wallet record created.
C29_NoWalletIdLost ==
    \A v \in VaultIds : \A id \in wallets : id \in Range(vaults[v].walletIds)

\* C30: the delegateEmails of the vault hold no email twice, and hold the
\* email of every delegate request that was answered with success.
C30_DelegateEmailsComplete ==
    \A v \in VaultIds :
        LET delegateEmails == vaults[v].delegateEmails IN
        /\ \A i, j \in 1..Len(delegateEmails) :
              i # j => delegateEmails[i] # delegateEmails[j]
        /\ \A r \in RequestSlots :
              (requests[r].kind = "delegate" /\ requests[r].result = "success")
                  => requests[r].email \in Range(delegateEmails)

\* C28: a transaction has at most one sign or execute operation in flight, and
\* while an operation on a transaction is in flight the buttons of that
\* transaction are disabled.
C28_OneOperationPerTransaction ==
    \A s \in Sessions :
        /\ \A k \in DOMAIN ops[s] :
              ops[s][k].pc # "idle" => ~ButtonEnabled(s, ops[s][k].hash)
        /\ \A j, k \in DOMAIN ops[s] :
              (j # k /\ ops[s][j].pc # "idle" /\ ops[s][k].pc # "idle")
                  => ops[s][j].hash # ops[s][k].hash

====
